---------------------------- MODULE Spec2Model ----------------------------
(***************************************************************************)
(* API key management (backend/src/auth/api_keys.py): generate_api_key,    *)
(* hash_api_key and verify_api_key.                                        *)
(*                                                                         *)
(* A str is a sequence of Unicode code points, a bytes value a sequence of *)
(* numbers 0..255.  The conversions the code applies (str.encode,          *)
(* bytes.hex, bytes.fromhex, str.split, the unpacking of its result,       *)
(* secrets.token_urlsafe) are computed as CPython computes them.  The two  *)
(* hash functions are idealised: each returns a 32-byte digest that is a   *)
(* fixed, collision-free function of its inputs over the inputs of this    *)
(* model.  The random source is a free choice among NumDraws outcomes.     *)
(***************************************************************************)
EXTENDS Integers, Sequences, FiniteSets, TLC

VARIABLES
    op,          \* the last call: "none", "generate", "hash", "verify"
    argKey,      \* its plain key (for generate: the key it produced)
    argVerifier, \* verify: the hashed_key it was given
    raised,      \* the exception it raised, or "none"
    result,      \* what it returned: hash/generate the verifier, verify TRUE or FALSE
    path,        \* verify: the return statement that decided ("pbkdf2", "legacy"), else "none"
    cmp,         \* verify: the operands of its == and how many characters == examined
    prevIssue,   \* the (plain key, verifier) pair hash/generate returned before lastIssue
    lastIssue,   \* the (plain key, verifier) pair hash/generate returned last
    pc,          \* ConcSpec: each thread's position in its call (a source line)
    call,        \* ConcSpec: what each thread's call was given and what it drew
    frame        \* ConcSpec: the parameters and local variables of each call

vars == <<op, argKey, argVerifier, raised, result, path, cmp, prevIssue, lastIssue, pc, call, frame>>


----------------------------------------------------------------------------
(* Bounds of the model. *)

\* the outcomes the random source can give to one draw
NumDraws == 2
\* the longest hand-made stored verifier
MaxVerifierLen == 2
\* the threads of ConcSpec
NumThreads == 2

----------------------------------------------------------------------------
(* Characters. *)

Dollar == 36
Space == 32
LowerA == 97
UpperA == 65
LowerG == 103
Zero == 48
Surrogate == 55296
EAcute == 233

\* "0123456789abcdef", the digits bytes.hex() writes
HexDigits == <<48, 49, 50, 51, 52, 53, 54, 55, 56, 57, 97, 98, 99, 100, 101, 102>>

\* the base64 URL-safe alphabet: A-Z a-z 0-9 - _
UrlSafeAlphabet ==
    [i \in 1..64 |->
        IF i <= 26 THEN 64 + i
        ELSE IF i <= 52 THEN 96 + (i - 26)
        ELSE IF i <= 62 THEN 47 + (i - 52)
        ELSE IF i = 63 THEN 45 ELSE 95]

\* Py_ISSPACE: space, \t, \n, \v, \f, \r
IsSpace(c) == c = 32 \/ (c >= 9 /\ c <= 13)

\* _PyLong_DigitValue[c] < 16
IsHexDigit(c) ==
    \/ (c >= 48 /\ c <= 57)
    \/ (c >= 97 /\ c <= 102)
    \/ (c >= 65 /\ c <= 70)

HexValue(c) ==
    IF c >= 48 /\ c <= 57 THEN c - 48
    ELSE IF c >= 97 /\ c <= 102 THEN c - 87
    ELSE c - 55

----------------------------------------------------------------------------
(* Conversions. *)

\* bytes.hex(): two lowercase digits per byte
hex(b) ==
    [i \in 1..(2 * Len(b)) |->
        IF i % 2 = 1 THEN HexDigits[(b[(i + 1) \div 2] \div 16) + 1]
        ELSE HexDigits[(b[i \div 2] % 16) + 1]]

\* the k-th smallest member of a set of numbers
Nth(S, k) == CHOOSE i \in S : Cardinality({ x \in S : x < i }) = k - 1

\* bytes.fromhex(s) over s[lo..hi], entered with the first digit of a pair
\* pending (its value, or -1 for none): ASCII whitespace is skipped before each
\* pair of digits, the two digits of a pair are adjacent and of either case, and
\* anything else raises ValueError
RECURSIVE FromHexScan(_, _, _, _)
FromHexScan(s, lo, hi, pending) ==
    IF lo > hi THEN [ok |-> TRUE, pending |-> pending, bytes |-> <<>>]
    ELSE IF lo = hi
         THEN IF pending = -1
              THEN IF IsSpace(s[lo]) THEN [ok |-> TRUE, pending |-> -1, bytes |-> <<>>]
                   ELSE IF IsHexDigit(s[lo])
                        THEN [ok |-> TRUE, pending |-> HexValue(s[lo]), bytes |-> <<>>]
                   ELSE [ok |-> FALSE, pending |-> -1, bytes |-> <<>>]
              ELSE IF IsHexDigit(s[lo])
                   THEN [ok |-> TRUE, pending |-> -1,
                         bytes |-> <<16 * pending + HexValue(s[lo])>>]
                   ELSE [ok |-> FALSE, pending |-> -1, bytes |-> <<>>]
    ELSE LET mid == (lo + hi) \div 2
             l == FromHexScan(s, lo, mid, pending)
         IN  IF ~l.ok THEN l
             ELSE LET r == FromHexScan(s, mid + 1, hi, l.pending)
                  IN  [ok |-> r.ok, pending |-> r.pending, bytes |-> l.bytes \o r.bytes]

\* a digit left without its pair is a ValueError too
fromhex(s) ==
    LET r == FromHexScan(s, 1, Len(s), -1)
    IN  IF r.ok /\ r.pending = -1 THEN [ok |-> TRUE, bytes |-> r.bytes]
        ELSE [ok |-> FALSE, bytes |-> <<>>]

\* the UTF-8 bytes of one code point; a surrogate has none
Utf8(c) ==
    IF c < 128 THEN <<c>>
    ELSE IF c < 2048 THEN <<192 + (c \div 64), 128 + (c % 64)>>
    ELSE IF c < 65536 THEN <<224 + (c \div 4096), 128 + ((c \div 64) % 64), 128 + (c % 64)>>
    ELSE <<240 + (c \div 262144), 128 + ((c \div 4096) % 64),
           128 + ((c \div 64) % 64), 128 + (c % 64)>>

IsSurrogate(c) == c >= 55296 /\ c <= 57343

\* the concatenation of parts[lo..hi]
RECURSIVE Concat(_, _, _)
Concat(parts, lo, hi) ==
    IF lo > hi THEN <<>>
    ELSE IF lo = hi THEN parts[lo]
    ELSE LET mid == (lo + hi) \div 2
         IN  Concat(parts, lo, mid) \o Concat(parts, mid + 1, hi)

\* str.encode(): UTF-8, strict; UnicodeEncodeError (a ValueError) on a surrogate
encode(s) ==
    LET ok == \A i \in 1..Len(s) : ~IsSurrogate(s[i])
    IN  [ok |-> ok,
         bytes |-> IF ok THEN Concat([i \in 1..Len(s) |-> Utf8(s[i])], 1, Len(s)) ELSE <<>>]

\* s.split(sep) for a one-character separator: the list of the parts, one more
\* than there are separators in s
split(s, sep) ==
    LET seps == { i \in 1..Len(s) : s[i] = sep }
        n == Cardinality(seps)
        start(j) == IF j = 1 THEN 1 ELSE Nth(seps, j - 1) + 1
        stop(j) == IF j = n + 1 THEN Len(s) ELSE Nth(seps, j) - 1
    IN  [j \in 1..(n + 1) |-> SubSeq(s, start(j), stop(j))]

\* base64.urlsafe_b64encode(b).rstrip(b'='): character j carries bits 6j-6 .. 6j-1
\* of b, the last one padded with zero bits; no '=' is kept
urlsafe_b64(b) ==
    LET byte(i) == IF i <= Len(b) THEN b[i] ELSE 0
        sextet(j) ==
            LET bit == 6 * (j - 1)
                at == (bit \div 8) + 1
                pair == 256 * byte(at) + byte(at + 1)
            IN  (pair \div (2 ^ (10 - (bit % 8)))) % 64
    IN  [j \in 1..((8 * Len(b) + 5) \div 6) |-> UrlSafeAlphabet[sextet(j) + 1]]

----------------------------------------------------------------------------
(* The library functions the code calls. *)

\* an order-sensitive summary of b[lo..hi], and 257^(hi - lo + 1), both modulo
\* the prime 46337 (the idealised hash core)
RECURSIVE Poly(_, _, _)
Poly(b, lo, hi) ==
    IF lo > hi THEN [sum |-> 0, shift |-> 1]
    ELSE IF lo = hi THEN [sum |-> (b[lo] + 1) % 46337, shift |-> 257]
    ELSE LET mid == (lo + hi) \div 2
             l == Poly(b, lo, mid)
             r == Poly(b, mid + 1, hi)
         IN  [sum |-> (l.sum * r.shift + r.sum) % 46337,
              shift |-> (l.shift * r.shift) % 46337]

Absorb(seed, b) ==
    LET p == Poly(b, 1, Len(b)) IN (seed * p.shift + p.sum) % 46337

\* four bytes, big-endian
Word(n) == <<(n \div 16777216) % 256, (n \div 65536) % 256, (n \div 256) % 256, n % 256>>

\* hashlib.sha256(data).digest(): 32 bytes, a fixed function of data
sha256(data) ==
    Word(Absorb(1, data)) \o Word(Len(data)) \o [i \in 1..24 |-> (90 + 5 * i) % 256]

\* hashlib.pbkdf2_hmac('sha256', password, salt, iterations): 32 bytes, a fixed
\* function of password, salt and iterations
pbkdf2_hmac(password, salt, iterations) ==
    Word(Absorb(2, password)) \o Word(Absorb(3, salt)) \o Word(iterations)
        \o Word(256 * Len(password) + Len(salt)) \o [i \in 1..16 |-> (165 + 3 * i) % 256]

\* the values secrets.token_bytes(n) can return in this model
token_bytes(n) == { [i \in 1..n |-> (83 * d + 7 * i) % 256] : d \in 1..NumDraws }

\* secrets.token_urlsafe(nbytes), given the bytes it drew
token_urlsafe(tok) == urlsafe_b64(tok)

\* a == b on two str: unequal lengths are unequal at once; otherwise the
\* characters are compared in order up to the first that differs
Examined(a, b) ==
    LET diff == { i \in 1..Len(a) : a[i] # b[i] }
    IN  IF diff = {} THEN Len(a) ELSE Nth(diff, 1)

\* a comparison that looks at the lengths alone
str_eq_lengths(a, b) ==
    [equal |-> Len(a) = Len(b), left |-> a, right |-> b, examined |-> 0]

str_eq(a, b) ==
    IF Len(a) # Len(b) THEN [equal |-> FALSE, left |-> a, right |-> b, examined |-> 0]
    ELSE [equal |-> a = b, left |-> a, right |-> b, examined |-> Examined(a, b)]

NoCmp == [equal |-> FALSE, left |-> <<>>, right |-> <<>>, examined |-> 0]

----------------------------------------------------------------------------
(* api_keys.py *)

\* hash_api_key with another iteration count than verify_api_key uses
hash_api_key_10000(api_key, salt) ==
    LET key == encode(api_key) IN
    IF ~key.ok THEN [raised |-> "UnicodeEncodeError", value |-> <<>>]
    ELSE LET hash_value == pbkdf2_hmac(key.bytes, salt, 10000)
         IN  [raised |-> "none", value |-> hex(salt) \o <<Dollar>> \o hex(hash_value)]

\* hash_api_key with a fixed salt in place of the one it drew
hash_api_key_fixed_salt(api_key, salt) ==
    LET key == encode(api_key)
        fixed == [i \in 1..32 |-> 0]
    IN  IF ~key.ok THEN [raised |-> "UnicodeEncodeError", value |-> <<>>]
        ELSE LET hash_value == pbkdf2_hmac(key.bytes, fixed, 100000)
             IN  [raised |-> "none", value |-> hex(fixed) \o <<Dollar>> \o hex(hash_value)]

\* hash_api_key that returns the legacy format
hash_api_key_legacy(api_key, salt) ==
    LET key == encode(api_key) IN
    IF ~key.ok THEN [raised |-> "UnicodeEncodeError", value |-> <<>>]
    ELSE [raised |-> "none", value |-> hex(sha256(key.bytes))]

\* hash_api_key(api_key), given the salt it drew
hash_api_key(api_key, salt) ==
    LET key == encode(api_key) IN
    IF ~key.ok THEN [raised |-> "UnicodeEncodeError", value |-> <<>>]
    ELSE LET hash_value == pbkdf2_hmac(key.bytes, salt, 100000)
         IN  [raised |-> "none", value |-> hex(salt) \o <<Dollar>> \o hex(hash_value)]

\* generate_api_key(), given the token bytes and the salt it drew
generate_api_key(tok, salt) ==
    LET plain_key == token_urlsafe(tok)
        hashed == hash_api_key(plain_key, salt)
    IN  [raised |-> hashed.raised, plain_key |-> plain_key, hashed_key |-> hashed.value]

\* `salt_hex, stored_hash = hashed_key.split('$')`: ValueError unless two parts
Unpack(hashed_key) ==
    LET parts == split(hashed_key, Dollar)
    IN  IF Len(parts) = 2
        THEN [ok |-> TRUE, salt_hex |-> parts[1], stored_hash |-> parts[2]]
        ELSE [ok |-> FALSE, salt_hex |-> <<>>, stored_hash |-> <<>>]

\* an except block without the legacy comparison
LegacyCheckRejects(plain_key, hashed_key) ==
    [raised |-> "none", value |-> FALSE, path |-> "legacy", cmp |-> NoCmp]

\* the except block of verify_api_key (line 29)
LegacyCheck(plain_key, hashed_key) ==
    LET key == encode(plain_key) IN
    IF ~key.ok
    THEN [raised |-> "UnicodeEncodeError", value |-> FALSE, path |-> "legacy", cmp |-> NoCmp]
    ELSE LET c == str_eq(hex(sha256(key.bytes)), hashed_key)
         IN  [raised |-> "none", value |-> c.equal, path |-> "legacy", cmp |-> c]

\* a try block that hex-decodes the digest half too
TryCheckDecodesDigest(plain_key, hashed_key) ==
    LET u == Unpack(hashed_key)
        salt == fromhex(u.salt_hex)
        digest == fromhex(u.stored_hash)
        key == encode(plain_key)
    IN  IF ~u.ok \/ ~salt.ok \/ ~digest.ok \/ ~key.ok
        THEN [caught |-> TRUE, value |-> FALSE, cmp |-> NoCmp]
        ELSE LET computed_hash == pbkdf2_hmac(key.bytes, salt.bytes, 100000)
                 c == str_eq(hex(computed_hash), u.stored_hash)
             IN  [caught |-> FALSE, value |-> c.equal, cmp |-> c]

\* a try block that insists on a salt of 32 bytes
TryCheckSalt32(plain_key, hashed_key) ==
    LET u == Unpack(hashed_key)
        salt == fromhex(u.salt_hex)
        key == encode(plain_key)
    IN  IF ~u.ok \/ ~salt.ok \/ ~key.ok \/ Len(salt.bytes) # 32
        THEN [caught |-> TRUE, value |-> FALSE, cmp |-> NoCmp]
        ELSE LET computed_hash == pbkdf2_hmac(key.bytes, salt.bytes, 100000)
                 c == str_eq(hex(computed_hash), u.stored_hash)
             IN  [caught |-> FALSE, value |-> c.equal, cmp |-> c]

\* the try block of verify_api_key (lines 23-26); caught tells that it raised a
\* ValueError, which the except clause catches (hashed_key is a str here, so
\* the AttributeError of the clause does not arise)
TryCheck(plain_key, hashed_key) ==
    LET u == Unpack(hashed_key)
        salt == fromhex(u.salt_hex)
        key == encode(plain_key)
    IN  IF ~u.ok \/ ~salt.ok \/ ~key.ok
        THEN [caught |-> TRUE, value |-> FALSE, cmp |-> NoCmp]
        ELSE LET computed_hash == pbkdf2_hmac(key.bytes, salt.bytes, 100000)
                 c == str_eq(hex(computed_hash), u.stored_hash)
             IN  [caught |-> FALSE, value |-> c.equal, cmp |-> c]

\* verify_api_key(plain_key, hashed_key)
verify_api_key(plain_key, hashed_key) ==
    LET t == TryCheck(plain_key, hashed_key) IN
    IF t.caught THEN LegacyCheck(plain_key, hashed_key)
    ELSE [raised |-> "none", value |-> t.value, path |-> "pbkdf2", cmp |-> t.cmp]

----------------------------------------------------------------------------
(* The inputs of the model. *)

\* hand-made plain keys: the empty str, "a", "e-acute" (two UTF-8 bytes), and a
\* lone surrogate, which is a str that str.encode() rejects
HandKeys == { <<>>, <<LowerA>>, <<EAcute>>, <<Surrogate>> }

\* the plain keys generate_api_key can return
GeneratedKeys == { token_urlsafe(tok) : tok \in token_bytes(32) }

AllKeys == HandKeys \cup GeneratedKeys

\* the plain keys: the str values that have bytes
PlainKeys == { k \in AllKeys : encode(k).ok }

\* the verifiers hash_api_key can return for k
HashesOf(k) == { hash_api_key(k, salt).value : salt \in token_bytes(32) }

\* the legacy verifier of k: hex(SHA256(k))
LegacyOf(k) == hex(sha256(encode(k).bytes))

RECURSIVE StringsUpTo(_, _)
StringsUpTo(alphabet, n) ==
    IF n = 0 THEN { <<>> }
    ELSE LET shorter == StringsUpTo(alphabet, n - 1)
         IN  shorter \cup { <<c>> \o t : c \in alphabet, t \in { u \in shorter : Len(u) = n - 1 } }

\* every str of at most MaxVerifierLen characters among a, A, g, $ and space
ShortVerifiers == StringsUpTo({LowerA, UpperA, LowerG, Dollar, Space}, MaxVerifierLen)

Upper(s) == [i \in 1..Len(s) |-> IF s[i] >= 97 /\ s[i] <= 102 THEN s[i] - 32 ELSE s[i]]

\* another lowercase hex digit than c
OtherDigit(c) == IF c = Zero THEN LowerA ELSE Zero

SetChar(s, i, c) == [s EXCEPT ![i] = c]

\* what a stored current-format verifier h can have been turned into
Tampered(h) ==
    LET u == Unpack(h)
        s == u.salt_hex
        d == u.stored_hash
    IN  { h,
          Upper(s) \o <<Dollar>> \o d,
          s \o <<Dollar>> \o Upper(d),
          <<Space>> \o h,
          s \o <<Space, Dollar>> \o d,
          h \o <<Space>>,
          SetChar(s, 1, LowerG) \o <<Dollar>> \o d,
          Tail(s) \o <<Dollar>> \o d,
          s \o <<Dollar>> \o SetChar(d, Len(d), LowerG),
          s \o <<Dollar>> \o SetChar(d, Len(d), OtherDigit(d[Len(d)])),
          s \o <<Dollar>> \o SetChar(d, 1, OtherDigit(d[1])),
          s \o <<Dollar>> \o SubSeq(d, 1, Len(d) - 1),
          h \o <<Dollar>>,
          s \o d,
          d }

\* current-format verifiers whose salt is not 32 bytes long
OddSalts(k) ==
    { hex(salt) \o <<Dollar>> \o hex(pbkdf2_hmac(encode(k).bytes, salt, 100000)) :
        salt \in { <<>>, <<171>> } }

LegacyTampered(k) ==
    LET l == LegacyOf(k)
    IN  { l, Upper(l), SetChar(l, 1, OtherDigit(l[1])),
          SetChar(l, Len(l), OtherDigit(l[Len(l)])), <<Space>> \o l, l \o <<Dollar>> }

\* the hashed_key values verify_api_key is given in VerifySpec
VerifierInputs ==
    ShortVerifiers
        \cup UNION { Tampered(h) : h \in UNION { HashesOf(k) : k \in PlainKeys } }
        \cup UNION { OddSalts(k) : k \in PlainKeys }
        \cup UNION { LegacyTampered(k) : k \in PlainKeys }

\* every verifier hash_api_key and generate_api_key can return
AllHashes == UNION { HashesOf(k) : k \in PlainKeys }

\* The three functions, tabulated once over the arguments Spec calls them with
\* (a definition without variables is evaluated once).
HashTable ==
    { <<k, salt, hash_api_key(k, salt)>> : k \in AllKeys, salt \in token_bytes(32) }
GenerateTable ==
    { <<tok, salt, generate_api_key(tok, salt)>> :
        tok \in token_bytes(32), salt \in token_bytes(32) }
StoredVerifiers == AllHashes \cup { LegacyOf(k) : k \in PlainKeys }
VerifyTable ==
    { <<k, v, verify_api_key(k, v)>> : k \in AllKeys, v \in StoredVerifiers }

\* a call: its row of the table, or the function itself on other arguments
HashCall(api_key, salt) ==
    IF \E e \in HashTable : e[1] = api_key /\ e[2] = salt
    THEN (CHOOSE e \in HashTable : e[1] = api_key /\ e[2] = salt)[3]
    ELSE hash_api_key(api_key, salt)
GenerateCall(tok, salt) ==
    IF \E e \in GenerateTable : e[1] = tok /\ e[2] = salt
    THEN (CHOOSE e \in GenerateTable : e[1] = tok /\ e[2] = salt)[3]
    ELSE generate_api_key(tok, salt)
VerifyCall(plain_key, hashed_key) ==
    IF \E e \in VerifyTable : e[1] = plain_key /\ e[2] = hashed_key
    THEN (CHOOSE e \in VerifyTable : e[1] = plain_key /\ e[2] = hashed_key)[3]
    ELSE verify_api_key(plain_key, hashed_key)

Threads == 1..NumThreads

\* a thread that is in no call, and a call's variables before any is assigned
NoCall == [fn |-> "none", key |-> <<>>, verifier |-> <<>>, tok |-> <<>>, salt |-> <<>>]
NoLocals ==
    [plain_key |-> <<>>, api_key |-> <<>>, hashed_key |-> <<>>, salt |-> <<>>,
     raised |-> "none", ret_key |-> <<>>, ret |-> <<>>]

----------------------------------------------------------------------------
(* Spec: calls of the three functions, one after the other. *)

NoIssue == [set |-> FALSE, key |-> <<>>, salt |-> <<>>, verifier |-> <<>>]

Init ==
    /\ op = "none"
    /\ argKey = <<>>
    /\ argVerifier = <<>>
    /\ raised = "none"
    /\ result = <<>>
    /\ path = "none"
    /\ cmp = NoCmp
    /\ prevIssue = NoIssue
    /\ lastIssue = NoIssue
    /\ pc = [t \in Threads |-> "idle"]
    /\ call = [t \in Threads |-> NoCall]
    /\ frame = [t \in Threads |-> NoLocals]

Issued == { r \in {prevIssue, lastIssue} : r.set }
IssuedKeys == { r.key : r \in Issued }
IssuedVerifiers == { r.verifier : r \in Issued }

\* the caller keeps what a call returned
Issue(exception, key, salt, verifier) ==
    IF exception = "none"
    THEN /\ prevIssue' = lastIssue
         /\ lastIssue' = [set |-> TRUE, key |-> key, salt |-> salt, verifier |-> verifier]
    ELSE UNCHANGED <<prevIssue, lastIssue>>

\* generate_api_key()
Generate ==
    /\ \E tok \in token_bytes(32), salt \in token_bytes(32) :
         LET r == GenerateCall(tok, salt) IN
         /\ op' = "generate"
         /\ argKey' = r.plain_key
         /\ argVerifier' = <<>>
         /\ raised' = r.raised
         /\ result' = r.hashed_key
         /\ Issue(r.raised, r.plain_key, salt, r.hashed_key)
    /\ path' = "none"
    /\ cmp' = NoCmp
    /\ UNCHANGED <<pc, call, frame>>

\* hash_api_key(api_key)
Hash ==
    /\ \E api_key \in HandKeys \cup IssuedKeys, salt \in token_bytes(32) :
         LET r == HashCall(api_key, salt) IN
         /\ op' = "hash"
         /\ argKey' = api_key
         /\ argVerifier' = <<>>
         /\ raised' = r.raised
         /\ result' = r.value
         /\ Issue(r.raised, api_key, salt, r.value)
    /\ path' = "none"
    /\ cmp' = NoCmp
    /\ UNCHANGED <<pc, call, frame>>

\* verify_api_key(plain_key, hashed_key) on a verifier that was issued
Verify ==
    /\ \E plain_key \in HandKeys \cup IssuedKeys, hashed_key \in IssuedVerifiers :
         LET r == VerifyCall(plain_key, hashed_key) IN
         /\ op' = "verify"
         /\ argKey' = plain_key
         /\ argVerifier' = hashed_key
         /\ raised' = r.raised
         /\ result' = r.value
         /\ path' = r.path
         /\ cmp' = r.cmp
    /\ UNCHANGED <<prevIssue, lastIssue, pc, call, frame>>

Next == Generate \/ Hash \/ Verify

Spec == Init /\ [][Next]_vars

----------------------------------------------------------------------------
(* ConcSpec: threads that call the three functions at the same time.  A call   *)
(* is cut where it draws from the random source and where control passes from *)
(* the try block to the except block; the steps of different threads          *)
(* interleave freely.                                                          *)

\* the pieces of the functions, tabulated once over the arguments ConcSpec has
UrlsafeTable == { <<tok, token_urlsafe(tok)>> : tok \in token_bytes(32) }
TryTable == { <<k, v, TryCheck(k, v)>> : k \in AllKeys, v \in StoredVerifiers }
LegacyCheckTable == { <<k, v, LegacyCheck(k, v)>> : k \in AllKeys, v \in StoredVerifiers }

UrlsafeOf(tok) ==
    IF \E e \in UrlsafeTable : e[1] = tok
    THEN (CHOOSE e \in UrlsafeTable : e[1] = tok)[2]
    ELSE token_urlsafe(tok)
TryOf(k, v) ==
    IF \E e \in TryTable : e[1] = k /\ e[2] = v
    THEN (CHOOSE e \in TryTable : e[1] = k /\ e[2] = v)[3]
    ELSE TryCheck(k, v)
LegacyCheckOf(k, v) ==
    IF \E e \in LegacyCheckTable : e[1] = k /\ e[2] = v
    THEN (CHOOSE e \in LegacyCheckTable : e[1] = k /\ e[2] = v)[3]
    ELSE LegacyCheck(k, v)

\* the plain keys and stored verifiers the threads call with
ConcKeys == { <<LowerA>>, <<Surrogate>> }
ConcVerifiers ==
    { hash_api_key(<<LowerA>>, CHOOSE salt \in token_bytes(32) : TRUE).value,
      LegacyOf(<<LowerA>>) }

\* one frame for every call, as module-level variables would be
FrameShared(t) == 1

\* where the parameters and local variables of thread t's call live: in the
\* call's own frame
FrameOf(t) == t

Locals(t) == frame[FrameOf(t)]

ConcInit ==
    /\ op = "none"
    /\ argKey = <<>>
    /\ argVerifier = <<>>
    /\ raised = "none"
    /\ result = <<>>
    /\ path = "none"
    /\ cmp = NoCmp
    /\ prevIssue = NoIssue
    /\ lastIssue = NoIssue
    /\ pc = [t \in Threads |-> "idle"]
    /\ call = [t \in Threads |-> NoCall]
    /\ frame = [t \in Threads |-> NoLocals]

seqVars == <<op, argKey, argVerifier, raised, result, path, cmp, prevIssue, lastIssue>>

\* a thread calls generate_api_key()
CallGenerate(t) ==
    /\ pc[t] = "idle"
    /\ pc' = [pc EXCEPT ![t] = "line8"]
    /\ call' = [call EXCEPT ![t] = [NoCall EXCEPT !.fn = "generate"]]
    /\ frame' = [frame EXCEPT ![FrameOf(t)] = NoLocals]
    /\ UNCHANGED seqVars

\* a thread calls hash_api_key(api_key)
CallHash(t) ==
    /\ pc[t] = "idle"
    /\ \E api_key \in ConcKeys :
         /\ call' = [call EXCEPT ![t] = [NoCall EXCEPT !.fn = "hash", !.key = api_key]]
         /\ frame' = [frame EXCEPT ![FrameOf(t)] = [NoLocals EXCEPT !.api_key = api_key]]
    /\ pc' = [pc EXCEPT ![t] = "line16"]
    /\ UNCHANGED seqVars

\* a thread calls verify_api_key(plain_key, hashed_key)
CallVerify(t) ==
    /\ pc[t] = "idle"
    /\ \E plain_key \in ConcKeys, hashed_key \in ConcVerifiers :
         /\ call' = [call EXCEPT ![t] =
                        [NoCall EXCEPT !.fn = "verify", !.key = plain_key,
                                       !.verifier = hashed_key]]
         /\ frame' = [frame EXCEPT ![FrameOf(t)] =
                        [NoLocals EXCEPT !.plain_key = plain_key,
                                         !.hashed_key = hashed_key]]
    /\ pc' = [pc EXCEPT ![t] = "line23"]
    /\ UNCHANGED seqVars

\* line 8: plain_key = secrets.token_urlsafe(32), then the call of hash_api_key
Line8(t) ==
    /\ pc[t] = "line8"
    /\ \E tok \in token_bytes(32) :
         /\ call' = [call EXCEPT ![t].tok = tok]
         /\ frame' = [frame EXCEPT ![FrameOf(t)].plain_key = UrlsafeOf(tok),
                                   ![FrameOf(t)].api_key = UrlsafeOf(tok)]
    /\ pc' = [pc EXCEPT ![t] = "line16"]
    /\ UNCHANGED seqVars

\* line 16: salt = secrets.token_bytes(32)
Line16(t) ==
    /\ pc[t] = "line16"
    /\ \E salt \in token_bytes(32) :
         /\ call' = [call EXCEPT ![t].salt = salt]
         /\ frame' = [frame EXCEPT ![FrameOf(t)].salt = salt]
    /\ pc' = [pc EXCEPT ![t] = "line17"]
    /\ UNCHANGED seqVars

\* lines 17-18 (and the return of line 9): the digest and the formatted verifier
Line17(t) ==
    /\ pc[t] = "line17"
    /\ LET r == HashCall(Locals(t).api_key, Locals(t).salt) IN
         frame' = [frame EXCEPT ![FrameOf(t)].raised = r.raised,
                                ![FrameOf(t)].ret = r.value,
                                ![FrameOf(t)].ret_key = Locals(t).plain_key]
    /\ pc' = [pc EXCEPT ![t] = "done"]
    /\ UNCHANGED <<call, seqVars>>

\* lines 23-26: the try block, which returns or raises a ValueError
Line23(t) ==
    /\ pc[t] = "line23"
    /\ LET r == TryOf(Locals(t).plain_key, Locals(t).hashed_key) IN
         IF r.caught
         THEN /\ pc' = [pc EXCEPT ![t] = "line29"]
              /\ UNCHANGED frame
         ELSE /\ pc' = [pc EXCEPT ![t] = "done"]
              /\ frame' = [frame EXCEPT ![FrameOf(t)].ret = r.value]
    /\ UNCHANGED <<call, seqVars>>

\* line 29: the except block
Line29(t) ==
    /\ pc[t] = "line29"
    /\ LET r == LegacyCheckOf(Locals(t).plain_key, Locals(t).hashed_key) IN
         frame' = [frame EXCEPT ![FrameOf(t)].raised = r.raised,
                                ![FrameOf(t)].ret = r.value]
    /\ pc' = [pc EXCEPT ![t] = "done"]
    /\ UNCHANGED <<call, seqVars>>

\* the caller takes the result
Return(t) ==
    /\ pc[t] = "done"
    /\ pc' = [pc EXCEPT ![t] = "idle"]
    /\ call' = [call EXCEPT ![t] = NoCall]
    /\ frame' = [frame EXCEPT ![FrameOf(t)] = NoLocals]
    /\ UNCHANGED seqVars

ConcNext ==
    \E t \in Threads :
        \/ CallGenerate(t)
        \/ CallHash(t)
        \/ CallVerify(t)
        \/ Line8(t)
        \/ Line16(t)
        \/ Line17(t)
        \/ Line23(t)
        \/ Line29(t)
        \/ Return(t)

ConcSpec == ConcInit /\ [][ConcNext]_vars

----------------------------------------------------------------------------
(* VerifySpec: verify_api_key as a function of its two arguments. *)

VerifyInit ==
    /\ op = "none"
    /\ argKey \in AllKeys
    /\ argVerifier \in VerifierInputs
    /\ raised = "none"
    /\ result = <<>>
    /\ path = "none"
    /\ cmp = NoCmp
    /\ prevIssue = NoIssue
    /\ lastIssue = NoIssue
    /\ pc = [t \in Threads |-> "idle"]
    /\ call = [t \in Threads |-> NoCall]
    /\ frame = [t \in Threads |-> NoLocals]

ApplyVerify ==
    /\ op = "none"
    /\ LET r == verify_api_key(argKey, argVerifier) IN
         /\ op' = "verify"
         /\ raised' = r.raised
         /\ result' = r.value
         /\ path' = r.path
         /\ cmp' = r.cmp
    /\ UNCHANGED <<argKey, argVerifier, prevIssue, lastIssue, pc, call, frame>>

VerifyNext == ApplyVerify

VerifySpec == VerifyInit /\ [][VerifyNext]_vars

----------------------------------------------------------------------------
(* What the claims speak of, stated apart from verify_api_key. *)

\* the legacy verifiers of the plain keys
LegacyTable == { <<k, LegacyOf(k)>> : k \in PlainKeys }

Dollars(v) == { i \in 1..Len(v) : v[i] = Dollar }

\* v has exactly one '$': what stands before it and after it
Before(v) == SubSeq(v, 1, (CHOOSE i \in Dollars(v) : TRUE) - 1)
After(v) == SubSeq(v, (CHOOSE i \in Dollars(v) : TRUE) + 1, Len(v))

IsLowerHex(c) == (c >= 48 /\ c <= 57) \/ (c >= 97 /\ c <= 102)

\* ^[0-9a-f]{64}\$[0-9a-f]{64}$
IsCurrentFormat(v) ==
    /\ Len(v) = 129
    /\ v[65] = Dollar
    /\ \A i \in (1..129) \ {65} : IsLowerHex(v[i])

\* case (a): one '$', a salt half that hex-decodes, and the digest of k under it
AcceptsCurrent(k, v) ==
    /\ Cardinality(Dollars(v)) = 1
    /\ fromhex(Before(v)).ok
    /\ encode(k).ok
    /\ After(v) = hex(pbkdf2_hmac(encode(k).bytes, fromhex(Before(v)).bytes, 100000))

\* case (b): the lowercase hex of SHA256(k)
AcceptsLegacy(k, v) ==
    /\ encode(k).ok
    /\ v = hex(sha256(encode(k).bytes))

\* the split into (saltHex, digestHex) fails as the specification describes it:
\* not exactly one '$', or either half is not valid hex
SplitFailsAsSpecified(v) ==
    \/ Cardinality(Dollars(v)) # 1
    \/ ~fromhex(Before(v)).ok
    \/ ~fromhex(After(v)).ok

\* the try block raises: not exactly one '$', a salt half that bytes.fromhex
\* rejects, or a plain key that has no bytes
TryRaises(k, v) ==
    \/ Cardinality(Dollars(v)) # 1
    \/ ~fromhex(Before(v)).ok
    \/ ~encode(k).ok

WasIssued(k, v) == \E r \in Issued : r.key = k /\ r.verifier = v

----------------------------------------------------------------------------
(* The claims. *)

\* C1: round trip. A verifier that hash_api_key or generate_api_key returned
\* for a plain key verifies against that key, whatever salt was drawn: the call
\* verify_api_key(k, hash(k)) returns True, and so does verifying the pair a
\* call of hash/generate has just returned.
C1_RoundTrip ==
    /\ (op = "verify" /\ WasIssued(argKey, argVerifier)) =>
           (raised = "none" /\ result = TRUE)
    /\ (op \in {"hash", "generate"} /\ raised = "none") =>
           (LET v == VerifyCall(argKey, result) IN v.raised = "none" /\ v.value = TRUE)

C1_Witness ==
    /\ op = "verify"
    /\ argKey \in GeneratedKeys
    /\ WasIssued(argKey, argVerifier)
    /\ result = TRUE

\* C2: a wrong key is rejected. verify_api_key(k1, hash(k2)) with plain keys
\* k1 # k2 returns False, and it is the PBKDF2 comparison that returns it: the
\* legacy comparison is not reached.
C2_WrongKeyRejected ==
    (/\ op = "verify"
     /\ argKey \in PlainKeys
     /\ \E r \in Issued : r.verifier = argVerifier /\ r.key # argKey)
    => (raised = "none" /\ result = FALSE /\ path = "pbkdf2")

C2_Witness ==
    /\ op = "verify"
    /\ argKey \in PlainKeys
    /\ \E r \in Issued : r.verifier = argVerifier /\ r.key # argKey
    /\ result = FALSE

\* C3: legacy compatibility. With legacy = hex(SHA256(k)) for a plain key k,
\* verify_api_key(k, legacy) returns True and verify_api_key(k2, legacy)
\* returns False for every plain key k2 # k.
C3_LegacyCompatibility ==
    \A e \in LegacyTable :
        (op = "verify" /\ argKey \in PlainKeys /\ argVerifier = e[2]) =>
            (raised = "none" /\ result = (argKey = e[1]))

C3_Witness ==
    /\ op = "verify"
    /\ argKey \in GeneratedKeys
    /\ <<argKey, argVerifier>> \in LegacyTable
    /\ result = TRUE
    /\ path = "legacy"

\* C4: verify_api_key never raises: for every str k and every str v it returns
\* a boolean, and the boolean is False when v matches neither the
\* current-format check nor the legacy check.
C4_NeverRaises ==
    op = "verify" =>
        /\ raised = "none"
        /\ result \in BOOLEAN
        /\ (~AcceptsCurrent(argKey, argVerifier) /\ ~AcceptsLegacy(argKey, argVerifier))
               => result = FALSE

\* C5 as stated: two calls of hash_api_key with the same plain key return two
\* different verifiers.
C5_AlwaysDifferent ==
    (prevIssue.set /\ lastIssue.set /\ prevIssue.key = lastIssue.key)
    => prevIssue.verifier # lastIssue.verifier

\* C5, amended: two calls of hash_api_key with the same plain key return
\* different verifiers exactly when they drew different salts, and both
\* verifiers verify against the key.
C5_DifferentIffSaltsDiffer ==
    (prevIssue.set /\ lastIssue.set /\ prevIssue.key = lastIssue.key)
    => /\ (prevIssue.verifier # lastIssue.verifier) <=> (prevIssue.salt # lastIssue.salt)
       /\ VerifyCall(prevIssue.key, prevIssue.verifier).value = TRUE
       /\ VerifyCall(lastIssue.key, lastIssue.verifier).value = TRUE

C5_Witness ==
    /\ op = "hash"
    /\ prevIssue.set
    /\ lastIssue.set
    /\ prevIssue.key = lastIssue.key
    /\ prevIssue.salt # lastIssue.salt
    /\ prevIssue.verifier # lastIssue.verifier

\* C6: output shape. Every verifier hash_api_key or generate_api_key returns
\* is 64 lowercase hex characters, one '$', and 64 lowercase hex characters;
\* the legacy bare-hex format is never produced.
C6_OutputShape ==
    (op \in {"hash", "generate"} /\ raised = "none") => IsCurrentFormat(result)

C6_Witness ==
    /\ op = "generate"
    /\ raised = "none"
    /\ IsCurrentFormat(result)
    /\ Len(argKey) = 43

\* C7: the digest comparisons of verify_api_key are constant-time: comparing
\* two strings of the same length examines every character, wherever the
\* first mismatch is.
C7_ConstantTimeCompare ==
    (op = "verify" /\ raised = "none" /\ Len(cmp.left) = Len(cmp.right))
    => cmp.examined = Len(cmp.left)

\* C8: concurrency. In every interleaving of generate_api_key, hash_api_key
\* and verify_api_key calls, a call that has finished has the result the
\* function gives alone for the same arguments and the same draws of the random
\* source, and verify_api_key still holds the hashed_key it was given.
C8_CallsDoNotInterfere ==
    \A t \in Threads :
        pc[t] = "done" =>
            /\ call[t].fn = "hash" =>
                   LET r == HashCall(call[t].key, call[t].salt)
                   IN  Locals(t).raised = r.raised /\ Locals(t).ret = r.value
            /\ call[t].fn = "generate" =>
                   LET r == GenerateCall(call[t].tok, call[t].salt)
                   IN  /\ Locals(t).raised = r.raised
                       /\ Locals(t).ret_key = r.plain_key
                       /\ Locals(t).ret = r.hashed_key
            /\ call[t].fn = "verify" =>
                   LET r == VerifyCall(call[t].key, call[t].verifier)
                   IN  /\ Locals(t).raised = r.raised
                       /\ Locals(t).ret = r.value
                       /\ Locals(t).hashed_key = call[t].verifier

\* two calls that overlapped, with different draws, have both finished
C8_Witness ==
    \E t, u \in Threads :
        /\ t # u
        /\ pc[t] = "done" /\ pc[u] = "done"
        /\ call[t].fn = "hash" /\ call[u].fn = "generate"
        /\ call[t].salt # call[u].salt
        /\ Locals(t).raised = "none" /\ Locals(u).raised = "none"

\* C9 as stated: verify_api_key takes the legacy path exactly when the
\* verifier has not exactly one '$' or either of its halves is not valid hex,
\* and the PBKDF2 path decides only when both halves are valid hex.
C9_FallbackOnEitherHalf ==
    (op = "verify" /\ argKey \in PlainKeys)
    => ((path = "legacy") <=> SplitFailsAsSpecified(argVerifier))

\* C9, amended: verify_api_key takes the legacy path exactly when the try block
\* raises, that is when the verifier has not exactly one '$', when
\* bytes.fromhex rejects the salt half, or when the plain key cannot be
\* encoded; the digest half is never hex-decoded. On the legacy path a call
\* that returns gives hex(SHA256(plain_key)) == the whole verifier; on the
\* PBKDF2 path it gives hex(PBKDF2(plain_key, salt, 100000)) == the digest half.
C9_FallbackDispatch ==
    op = "verify" =>
        /\ (path = "legacy") <=> TryRaises(argKey, argVerifier)
        /\ (path = "legacy" /\ raised = "none")
               => result = AcceptsLegacy(argKey, argVerifier)
        /\ path = "pbkdf2"
               => (raised = "none" /\ result = AcceptsCurrent(argKey, argVerifier))

C9_Witness ==
    /\ op = "verify"
    /\ path = "pbkdf2"
    /\ Cardinality(Dollars(argVerifier)) = 1
    /\ fromhex(Before(argVerifier)).ok
    /\ ~fromhex(After(argVerifier)).ok
    /\ Len(argVerifier) = 129
    /\ result = FALSE

\* C10: the acceptance set. verify_api_key(k, v) returns True if and only if
\* (a) v has exactly one '$', the part before it hex-decodes to a salt of any
\* length, and the part after it is the lowercase hex of PBKDF2(k, salt,
\* 100000), or (b) v is the lowercase hex of SHA256(k); (a) and (b) never both
\* hold.
C10_AcceptanceSet ==
    op = "verify" =>
        /\ (raised = "none" /\ result = TRUE)
               <=> (AcceptsCurrent(argKey, argVerifier) \/ AcceptsLegacy(argKey, argVerifier))
        /\ ~(AcceptsCurrent(argKey, argVerifier) /\ AcceptsLegacy(argKey, argVerifier))

C10_Witness ==
    /\ op = "verify"
    /\ result = TRUE
    /\ AcceptsCurrent(argKey, argVerifier)
    /\ Len(fromhex(Before(argVerifier)).bytes) # 32

====
